---- MODULE Spec2Model ----
(***************************************************************************)
(* HeroForge AI: the App component's session state (App.tsx, kept here as  *)
(* src/unnamed/part_002) and the edit-request client                       *)
(* (src/services/geminiService.ts) as a state machine.                     *)
(*                                                                         *)
(* JavaScript strings are sequences of chunks: each chunk is a piece of    *)
(* literal text that no operation of the program looks inside, except the  *)
(* one-character chunks " " (white space, which trim() removes) and ","    *)
(* (where split(',') cuts).  The empty string is <<>>, a template literal  *)
(* is the concatenation of its pieces.  null and undefined are the         *)
(* reserved one-chunk sequences Null and Undefined.                        *)
(***************************************************************************)
EXTENDS Integers, Sequences, FiniteSets, TLC

VARIABLES state, prompt, readers, requests, started, last

vars == <<state, prompt, readers, requests, started, last>>

(***************************************************************************)
(* Bounds of the model.                                                    *)
(***************************************************************************)
\* file reads started in a session
MaxReads == 2
\* edit requests started in a session
MaxEdits == 2
\* parts in the content of a response
MaxParts == 3

(***************************************************************************)
(* JavaScript values.                                                      *)
(***************************************************************************)
Null == <<"#null">>
Undefined == <<"#undefined">>

\* JavaScript truthiness of a string | null | undefined.
Truthy(v) == v # Null /\ v # Undefined /\ v # <<>>

\* a || b
OrElse(a, b) == IF Truthy(a) THEN a ELSE b

IsSpace(c) == c = " "

RECURSIVE TrimStart(_)
TrimStart(s) ==
  IF s # <<>> /\ IsSpace(Head(s)) THEN TrimStart(Tail(s)) ELSE s

RECURSIVE TrimEnd(_)
TrimEnd(s) ==
  IF s # <<>> /\ IsSpace(s[Len(s)]) THEN TrimEnd(SubSeq(s, 1, Len(s) - 1)) ELSE s

\* String.prototype.trim
Trim(s) == TrimEnd(TrimStart(s))

(***************************************************************************)
(* Constants of the program.                                               *)
(***************************************************************************)
MAX_FILE_SIZE_MB == 5

ALLOWED_TYPES == {<<"image/jpeg">>, <<"image/png">>, <<"image/webp">>}

\* MAX_FILE_SIZE_MB * 1024 * 1024
MaxFileSize == MAX_FILE_SIZE_MB * 1024 * 1024

SAMPLE_PROMPTS ==
  << <<"Add a cyberpunk neon glow filter">>,
     <<"Make it look like a pencil sketch">>,
     <<"Remove the background and replace with a solid color">>,
     <<"Add a futuristic interface overlay">>,
     <<"Apply a vintage 80s retro style">>,
     <<"Turn this into a modern website hero section design">> >>

InvalidTypeError == <<"Invalid file type. Please upload JPEG, PNG, or WebP.">>

FileTooLargeError ==
  <<"File too large. Maximum size is ", ToString(MAX_FILE_SIZE_MB), "MB.">>

ReadFailedError == <<"Failed to read file.">>

DefaultPrompt == <<"Add a futuristic neon aesthetic">>

NoCandidatesError == <<"No response candidates returned from Gemini.">>

TextInsteadOfImage == "Model returned text instead of image: "

NoValidImageError == <<"Model did not return a valid image.">>

EditFailedError == <<"Failed to edit image using Gemini.">>

SomethingWentWrong == <<"Something went wrong while generating the image.">>

(***************************************************************************)
(* The AppState and its initial value.                                     *)
(***************************************************************************)
\* generatedImage: null
NoGenerated == [imageUrl |-> Null, prompt |-> Null, timestamp |-> 0]

InitialState ==
  [ originalImage    |-> Null,
    originalMimeType |-> <<>>,
    isGenerating     |-> FALSE,
    generatedImage   |-> NoGenerated,
    error            |-> Null ]

(***************************************************************************)
(* Files the user may select: File.type, File.size and the base64 encoding *)
(* of the bytes (what FileReader.readAsDataURL puts after the comma).      *)
(***************************************************************************)
ValidFiles ==
  { [type |-> <<"image/png">>,  size |-> MaxFileSize, data |-> <<"UE5H">>],
    [type |-> <<"image/webp">>, size |-> 1,           data |-> <<"V0VC">>] }

InvalidFiles ==
  { [type |-> <<"image/gif">>,  size |-> 1,               data |-> <<"R0lG">>],
    [type |-> <<>>,             size |-> MaxFileSize + 1, data |-> <<"QklO">>],
    [type |-> <<"image/png">>,  size |-> MaxFileSize + 1, data |-> <<"QklH">>] }

Files == ValidFiles \cup InvalidFiles

\* event.target.files: nothing selected, or one file
FileLists == {<<>>} \cup {<<f>> : f \in Files}

NoFile == [type |-> Undefined, size |-> 0, data |-> Undefined]

\* FileReader.readAsDataURL, when the read succeeds
ReadAsDataURL(file) == <<"data:">> \o file.type \o <<";base64", ",">> \o file.data

(***************************************************************************)
(* geminiService.ts                                                        *)
(***************************************************************************)
\* The index of the first "," of s at or after i, 0 when there is none.
RECURSIVE IndexOfComma(_, _)
IndexOfComma(s, i) ==
  IF i > Len(s) THEN 0
  ELSE IF s[i] = "," THEN i
  ELSE IndexOfComma(s, i + 1)

\* dataUrl.split(',')[1]
extractBase64Data(dataUrl) ==
  LET i == IndexOfComma(dataUrl, 1) IN
  IF i = 0 THEN Undefined
  ELSE LET rest == SubSeq(dataUrl, i + 1, Len(dataUrl))
           j    == IndexOfComma(rest, 1)
       IN IF j = 0 THEN rest ELSE SubSeq(rest, 1, j - 1)

\* Parts of a response's content: inlineData ({data, mimeType}, or absent)
\* and text (a string, or absent).
NoInline == [present |-> FALSE, data |-> Undefined, mimeType |-> Undefined]

Inline(d, m) == [present |-> TRUE, data |-> d, mimeType |-> m]

PartKinds ==
  { [inlineData |-> Inline(<<"QUJD">>, <<"image/jpeg">>), text |-> Undefined],
    [inlineData |-> Inline(<<"REVG">>, Undefined),        text |-> Undefined],
    [inlineData |-> NoInline, text |-> <<"I cannot edit this image.">>],
    [inlineData |-> NoInline, text |-> <<"Try another prompt.">>],
    [inlineData |-> NoInline, text |-> <<>>],
    [inlineData |-> NoInline, text |-> Undefined] }

PartLists(n) == UNION {[1..k -> PartKinds] : k \in 0..n}

\* What ai.models.generateContent does: it throws an error with a message,
\* or resolves to a response with no candidates, or to a response whose
\* first candidate has content with or without parts.
Thrown(m)   == [kind |-> "throw",        message |-> m,         parts |-> <<>>]
NoResponse  == [kind |-> "null",         message |-> Undefined, parts |-> <<>>]
NoCandidate == [kind |-> "nocandidates", message |-> Undefined, parts |-> <<>>]
NoParts     == [kind |-> "noparts",      message |-> Undefined, parts |-> <<>>]
Content(ps) == [kind |-> "parts",        message |-> Undefined, parts |-> ps]

Replies ==
  {Thrown(<<"fetch failed">>), Thrown(<<>>), Thrown(Undefined),
   NoResponse, NoCandidate, NoParts}
    \cup {Content(ps) : ps \in PartLists(MaxParts)}

\* The replies that complete a session's requests: a failure of the SDK
\* without a message, a refusal in words, and an image.
SessionReplies ==
  { Thrown(<<>>),
    Content(<< [inlineData |-> NoInline, text |-> <<"I cannot edit this image.">>] >>),
    Content(<< [inlineData |-> Inline(<<"QUJD">>, <<"image/jpeg">>), text |-> Undefined] >>) }

\* The result of an async call: resolved with a value, or rejected with an
\* Error whose message is the value.
Resolve(v) == [ok |-> TRUE,  value |-> v]
Reject(m)  == [ok |-> FALSE, value |-> m]

\* the loop without its break: the last inline image wins
RECURSIVE C7Mut_ScanParts(_, _)
C7Mut_ScanParts(parts, i) ==
  IF i > Len(parts) THEN <<>>
  ELSE LET later == C7Mut_ScanParts(parts, i + 1) IN
       IF Truthy(later) THEN later
       ELSE IF parts[i].inlineData.present
       THEN <<"data:">> \o OrElse(parts[i].inlineData.mimeType, <<"image/png">>)
              \o <<";base64", ",">> \o parts[i].inlineData.data
       ELSE <<>>

\* for (const part of content.parts) { if (part.inlineData) {...; break} }
RECURSIVE ScanParts(_, _)
ScanParts(parts, i) ==
  IF i > Len(parts) THEN <<>>
  ELSE IF parts[i].inlineData.present
       THEN LET base64EncodeString == parts[i].inlineData.data
                responseMime == OrElse(parts[i].inlineData.mimeType, <<"image/png">>)
            IN <<"data:">> \o responseMime \o <<";base64", ",">> \o base64EncodeString
       ELSE ScanParts(parts, i + 1)

\* content.parts?.find(p => p.text)?.text
RECURSIVE FindText(_, _)
FindText(parts, i) ==
  IF i > Len(parts) THEN Undefined
  ELSE IF Truthy(parts[i].text) THEN parts[i].text
  ELSE FindText(parts, i + 1)

\* The body of the try block, given what generateContent did.
TryEdit(reply) ==
  IF reply.kind = "throw" THEN Reject(reply.message)
  ELSE IF reply.kind \in {"null", "nocandidates"} THEN Reject(NoCandidatesError)
  ELSE LET hasParts == reply.kind = "parts"
           generatedImageUrl == IF hasParts THEN ScanParts(reply.parts, 1) ELSE <<>>
       IN IF ~Truthy(generatedImageUrl)
          THEN LET textPart == IF hasParts THEN FindText(reply.parts, 1) ELSE Undefined
               IN IF Truthy(textPart)
                  THEN Reject(<<TextInsteadOfImage>> \o textPart)
                  ELSE Reject(NoValidImageError)
          ELSE Resolve(generatedImageUrl)

\* editImageWithGemini: the try block, and the catch that rethrows
editImageWithGemini(base64Image, mimeType, promptText, reply) ==
  LET r == TryEdit(reply) IN
  IF r.ok THEN r ELSE Reject(OrElse(r.value, EditFailedError))

(***************************************************************************)
(* App.tsx: the state updaters.                                            *)
(***************************************************************************)
\* the type check letting every image/* type through
C4Mut_TypeAllowed(file) == file.type \in ALLOWED_TYPES \cup {<<"image/gif">>}

\* ALLOWED_TYPES.includes(file.type)
TypeAllowed(file) == file.type \in ALLOWED_TYPES

\* the size check with >= for >
C3Mut_TooLarge(file) == file.size >= MaxFileSize

\* file.size > MAX_FILE_SIZE_MB * 1024 * 1024
TooLarge(file) == file.size > MaxFileSize

\* prev => ({ ...prev, error: e })
SetError(s, e) == [s EXCEPT !.error = e]

\* reader.onloadend: the state it sets, from reader.result and the file
OnLoadEnd(result, file) ==
  [ originalImage    |-> result,
    originalMimeType |-> file.type,
    isGenerating     |-> FALSE,
    generatedImage   |-> NoGenerated,
    error            |-> Null ]

\* reader.onloadend: if (!prompt) setPrompt(...), with the prompt the
\* handler's closure holds (the prompt when the file was selected)
PromptAfterLoad(captured, current) ==
  IF ~Truthy(captured) THEN DefaultPrompt ELSE current

\* reader.onerror
OnError(s) == SetError(s, ReadFailedError)

\* the start of an attempt clearing the result as well
C2Mut_StartGeneration(s) ==
  [s EXCEPT !.isGenerating = TRUE, !.error = Null, !.generatedImage = NoGenerated]

\* handleGenerate: prev => ({ ...prev, isGenerating: true, error: null })
StartGeneration(s) == [s EXCEPT !.isGenerating = TRUE, !.error = Null]

\* the success handler dropping a result that arrives after a reset
C10Mut_GenerationSucceeded(s, generatedImageBase64, promptText, now) ==
  IF ~Truthy(s.originalImage)
  THEN [s EXCEPT !.isGenerating = FALSE]
  ELSE [s EXCEPT !.isGenerating = FALSE,
                 !.generatedImage = [ imageUrl  |-> generatedImageBase64,
                                      prompt    |-> promptText,
                                      timestamp |-> now ]]

\* handleGenerate, after the await
GenerationSucceeded(s, generatedImageBase64, promptText, now) ==
  [s EXCEPT !.isGenerating = FALSE,
            !.generatedImage = [ imageUrl  |-> generatedImageBase64,
                                 prompt    |-> promptText,
                                 timestamp |-> now ]]

\* the catch leaving the in-flight flag set
C5Mut_GenerationFailed(s, message) ==
  [s EXCEPT !.error = OrElse(message, SomethingWentWrong)]

\* handleGenerate, the catch
GenerationFailed(s, message) ==
  [s EXCEPT !.isGenerating = FALSE,
            !.error = OrElse(message, SomethingWentWrong)]

\* the reset keeping the generated image
C8Mut_ResetState == [InitialState EXCEPT !.generatedImage = state.generatedImage]

\* handleReset: the state it sets
ResetState == InitialState

\* the Generate button's disabled attribute
GenerateDisabled(s, p) ==
  ~Truthy(s.originalImage) \/ ~Truthy(Trim(p)) \/ s.isGenerating

\* the file input is rendered only while there is no original image
FileInputRendered(s) == ~Truthy(s.originalImage)

\* the Remove Image button is rendered only while there is an original image
ResetRendered(s) == Truthy(s.originalImage)

\* the textarea is enabled, and the sample prompts are shown
PromptEditable(s) == ~(s.isGenerating \/ ~Truthy(s.originalImage))

(***************************************************************************)
(* What the user types, and what Date.now() returns.                       *)
(***************************************************************************)
TypedPrompts == {<<" ">>, <<" ", "Make it blue", " ">>}

\* the SAMPLE_PROMPTS the user clicks (by index)
ClickedSamples == {1}

Instants == {1, 2}

(***************************************************************************)
(* The record of the last step: the operation, its inputs, what it         *)
(* computed, and the state it started from.                                *)
(***************************************************************************)
NoReader  == [file |-> NoFile, prompt |-> Undefined]
NoRequest == [image |-> Undefined, base64Image |-> Undefined,
              mimeType |-> Undefined, prompt |-> Undefined]
NoReply   == [kind |-> "none", message |-> Undefined, parts |-> <<>>]
NoOutcome == [ok |-> FALSE, value |-> Undefined]

Snapshot == [state |-> state, prompt |-> prompt,
             readers |-> readers, requests |-> requests]

\* how many reads and how many edit requests the session has started
NoneStarted == [reads |-> 0, edits |-> 0]

Step(op, file, reader, req, reply, out) ==
  [op |-> op, file |-> file, reader |-> reader, req |-> req,
   reply |-> reply, out |-> out, pre |-> Snapshot]

RemoveAt(s, i) == SubSeq(s, 1, i - 1) \o SubSeq(s, i + 1, Len(s))

Init ==
  /\ state = InitialState
  /\ prompt = <<>>
  /\ readers = <<>>
  /\ requests = <<>>
  /\ started = NoneStarted
  /\ last = [op |-> "init", file |-> NoFile, reader |-> NoReader,
             req |-> NoRequest, reply |-> NoReply, out |-> NoOutcome,
             pre |-> [state |-> InitialState, prompt |-> <<>>,
                      readers |-> <<>>, requests |-> <<>>]]

(***************************************************************************)
(* App.tsx: the handlers.                                                  *)
(***************************************************************************)
handleFileUpload(files) ==
  /\ FileInputRendered(state)
  /\ LET file == IF files = <<>> THEN NoFile ELSE files[1] IN
     /\ IF files = <<>>
        THEN UNCHANGED <<state, readers>>
        ELSE IF ~TypeAllowed(file)
        THEN /\ state' = SetError(state, InvalidTypeError)
             /\ UNCHANGED readers
        ELSE IF TooLarge(file)
        THEN /\ state' = SetError(state, FileTooLargeError)
             /\ UNCHANGED readers
        ELSE /\ started.reads < MaxReads
             /\ readers' = Append(readers, [file |-> file, prompt |-> prompt])
             /\ UNCHANGED state
     /\ started' = IF files # <<>> /\ TypeAllowed(file) /\ ~TooLarge(file)
                   THEN [started EXCEPT !.reads = @ + 1]
                   ELSE started
     /\ last' = Step("upload", file, NoReader, NoRequest, NoReply, NoOutcome)
  /\ UNCHANGED <<prompt, requests>>

\* The read of reader i succeeds: loadend fires with the data URL.
ReadLoaded(i) ==
  /\ i \in 1..Len(readers)
  /\ state' = OnLoadEnd(ReadAsDataURL(readers[i].file), readers[i].file)
  /\ prompt' = PromptAfterLoad(readers[i].prompt, prompt)
  /\ readers' = RemoveAt(readers, i)
  /\ last' = Step("loaded", readers[i].file, readers[i], NoRequest, NoReply, NoOutcome)
  /\ UNCHANGED <<requests, started>>

\* The read of reader i fails: error fires, then loadend, in the same task,
\* with reader.result null.
ReadFailed(i) ==
  /\ i \in 1..Len(readers)
  /\ LET afterError   == OnError(state)
         \* setState with an object replaces what onerror set
         afterLoadEnd == OnLoadEnd(Null, readers[i].file)
     IN state' = afterLoadEnd
  /\ prompt' = PromptAfterLoad(readers[i].prompt, prompt)
  /\ readers' = RemoveAt(readers, i)
  /\ last' = Step("readfailed", readers[i].file, readers[i], NoRequest, NoReply, NoOutcome)
  /\ UNCHANGED <<requests, started>>

\* textarea onChange
TypePrompt(p) ==
  /\ PromptEditable(state)
  /\ prompt' = p
  /\ last' = Step("type", NoFile, NoReader, NoRequest, NoReply, NoOutcome)
  /\ UNCHANGED <<state, readers, requests, started>>

\* a sample prompt's onClick
PickSample(k) ==
  /\ PromptEditable(state)
  /\ prompt' = SAMPLE_PROMPTS[k]
  /\ last' = Step("sample", NoFile, NoReader, NoRequest, NoReply, NoOutcome)
  /\ UNCHANGED <<state, readers, requests, started>>

\* handleGenerate up to the await: the request starts
handleGenerate ==
  /\ ~GenerateDisabled(state, prompt)
  /\ IF ~Truthy(state.originalImage) \/ ~Truthy(Trim(prompt))
     THEN /\ UNCHANGED <<state, requests, started>>
          /\ last' = Step("generate", NoFile, NoReader, NoRequest, NoReply, NoOutcome)
     ELSE LET req == [ image       |-> state.originalImage,
                       base64Image |-> extractBase64Data(state.originalImage),
                       mimeType    |-> state.originalMimeType,
                       prompt      |-> prompt ]
          IN /\ started.edits < MaxEdits
             /\ state' = StartGeneration(state)
             /\ requests' = Append(requests, req)
             /\ started' = [started EXCEPT !.edits = @ + 1]
             /\ last' = Step("generate", NoFile, NoReader, req, NoReply, NoOutcome)
  /\ UNCHANGED <<prompt, readers>>

\* handleGenerate after the await: request i completes
EditCompleted(i, reply, now) ==
  /\ i \in 1..Len(requests)
  /\ LET req == requests[i]
         out == editImageWithGemini(req.base64Image, req.mimeType, req.prompt, reply)
     IN /\ state' = IF out.ok
                    THEN GenerationSucceeded(state, out.value, req.prompt, now)
                    ELSE GenerationFailed(state, out.value)
        /\ last' = Step("completed", NoFile, NoReader, req, reply, out)
  /\ requests' = RemoveAt(requests, i)
  /\ UNCHANGED <<prompt, readers, started>>

handleReset ==
  /\ ResetRendered(state)
  /\ state' = ResetState
  /\ prompt' = <<>>
  /\ last' = Step("reset", NoFile, NoReader, NoRequest, NoReply, NoOutcome)
  /\ UNCHANGED <<readers, requests, started>>

Next ==
  \/ \E files \in FileLists : handleFileUpload(files)
  \/ \E i \in 1..MaxReads : ReadLoaded(i)
  \/ \E i \in 1..MaxReads : ReadFailed(i)
  \/ \E p \in TypedPrompts : TypePrompt(p)
  \/ \E k \in ClickedSamples : PickSample(k)
  \/ handleGenerate
  \/ \E i \in 1..MaxEdits, reply \in SessionReplies, now \in Instants :
       EditCompleted(i, reply, now)
  \/ handleReset

Spec == Init /\ [][Next]_vars

(***************************************************************************)
(* editImageWithGemini alone, on every reply of the SDK.                   *)
(***************************************************************************)
\* A call with the payload and type of a file, a prompt, and the reply the
\* SDK is going to give.
EditInit ==
  /\ state = InitialState
  /\ prompt = <<>>
  /\ readers = <<>>
  /\ requests = <<>>
  /\ started = NoneStarted
  /\ \E file \in ValidFiles, reply \in Replies :
       last = [op |-> "call", file |-> NoFile, reader |-> NoReader,
               req |-> [ image       |-> ReadAsDataURL(file),
                         base64Image |-> extractBase64Data(ReadAsDataURL(file)),
                         mimeType    |-> file.type,
                         prompt      |-> DefaultPrompt ],
               reply |-> reply, out |-> NoOutcome,
               pre |-> [state |-> InitialState, prompt |-> <<>>,
                        readers |-> <<>>, requests |-> <<>>]]

\* The call returns or throws.
CallEdit ==
  /\ last.op = "call"
  /\ last' = [last EXCEPT
                !.op = "editImage",
                !.out = editImageWithGemini(last.req.base64Image, last.req.mimeType,
                                            last.req.prompt, last.reply)]
  /\ UNCHANGED <<state, prompt, readers, requests, started>>

EditNext == CallEdit

SpecEdit == EditInit /\ [][EditNext]_vars

(***************************************************************************)
(* Properties.                                                             *)
(***************************************************************************)
pre == last.pre

Completed == last.op = "completed"

Present(g) == g # NoGenerated

\* C1: the in-flight flag is true exactly when one edit request is
\* outstanding, and two edit requests are never outstanding together.
C1_InFlightIffOneOutstanding ==
  /\ state.isGenerating <=> Len(requests) = 1
  /\ Len(requests) <= 1

\* C2 as stated: starting an attempt clears the error and the result, and a
\* completed attempt never leaves a non-empty error together with a result.
C2_ErrorAndResultExclusive ==
  /\ (last.op = "generate" /\ last.req # NoRequest)
       => state.error = Null /\ ~Present(state.generatedImage)
  /\ Completed => ~(Truthy(state.error) /\ Present(state.generatedImage))

\* C2, amended: starting an attempt clears the error and keeps the result; a
\* completion that succeeds sets the result and keeps the error as it was, a
\* completion that fails sets a non-empty error and keeps the result as it
\* was.
C2_StartClearsErrorOnly ==
  /\ (last.op = "generate" /\ last.req # NoRequest)
       => /\ state.error = Null
          /\ state.generatedImage = pre.state.generatedImage
  /\ (Completed /\ last.out.ok)
       => /\ Present(state.generatedImage)
          /\ state.error = pre.state.error
  /\ (Completed /\ ~last.out.ok)
       => /\ Truthy(state.error)
          /\ state.generatedImage = pre.state.generatedImage

\* an attempt failed after an earlier one had succeeded: both are held
C2_Witness ==
  /\ Completed /\ ~last.out.ok
  /\ Truthy(state.error) /\ Present(state.generatedImage)
  /\ state.originalImage = last.req.image

IsValidFile(f) ==
  /\ f.type \in {<<"image/jpeg">>, <<"image/png">>, <<"image/webp">>}
  /\ f.size <= 5 * 1024 * 1024

\* C3: a file of an allowed type and of at most 5 MB is read, and once its
\* read completes the state is the file's data URL and type, with the error,
\* the result and the in-flight flag cleared, whatever the state was.
C3_ValidUploadPopulates ==
  /\ (last.op = "upload" /\ last.file # NoFile /\ IsValidFile(last.file))
       => /\ readers = Append(pre.readers, [file |-> last.file, prompt |-> pre.prompt])
          /\ state = pre.state
  /\ last.op = "loaded"
       => /\ IsValidFile(last.file)
          /\ state.originalImage =
               <<"data:">> \o last.file.type \o <<";base64", ",">> \o last.file.data
          /\ state.originalMimeType = last.file.type
          /\ state.error = Null
          /\ ~Present(state.generatedImage)
          /\ state.isGenerating = FALSE

\* the read of a file of exactly 5 MB completes while a request is
\* outstanding and an earlier image is shown
C3_Witness ==
  /\ last.op = "loaded"
  /\ last.file.size = 5 * 1024 * 1024
  /\ pre.state.isGenerating
  /\ Truthy(pre.state.originalImage)
  /\ state.originalImage # pre.state.originalImage

\* C4: a file of another type, or of more than 5 MB, sets the type error
\* (when the type is invalid) or else the size error, starts no read and
\* leaves the rest of the state as it was.
C4_InvalidUploadRejected ==
  (last.op = "upload" /\ last.file # NoFile /\ ~IsValidFile(last.file))
    => /\ Truthy(state.error)
       /\ state.error =
            IF last.file.type \notin {<<"image/jpeg">>, <<"image/png">>, <<"image/webp">>}
            THEN InvalidTypeError
            ELSE FileTooLargeError
       /\ readers = pre.readers
       /\ state.originalImage = pre.state.originalImage
       /\ state.originalMimeType = pre.state.originalMimeType
       /\ state.generatedImage = pre.state.generatedImage
       /\ state.isGenerating = pre.state.isGenerating

\* a file too large and of an invalid type, selected while a read is pending
C4_Witness ==
  /\ last.op = "upload"
  /\ last.file.size > 5 * 1024 * 1024
  /\ last.file.type = <<>>
  /\ state.error = InvalidTypeError
  /\ readers # <<>>

\* C5: a failed edit request sets a non-empty error, clears the in-flight
\* flag and leaves the original image and its type as they were; generate
\* is then disabled only for want of an image or of a prompt, and is enabled
\* on the request's image and prompt when they are still the current ones.
C5_FailureKeepsSource ==
  (Completed /\ ~last.out.ok)
    => /\ Truthy(state.error)
       /\ state.isGenerating = FALSE
       /\ state.originalImage = pre.state.originalImage
       /\ state.originalMimeType = pre.state.originalMimeType
       /\ prompt = pre.prompt
       /\ GenerateDisabled(state, prompt)
            <=> (~Truthy(state.originalImage) \/ ~Truthy(Trim(prompt)))
       /\ (state.originalImage = last.req.image /\ prompt = last.req.prompt)
            => ~GenerateDisabled(state, prompt)

\* the SDK failed without a message: the fallback message is shown and the
\* same image and prompt can be sent again
C5_Witness ==
  /\ Completed /\ ~last.out.ok
  /\ last.reply = Thrown(<<>>)
  /\ state.error = EditFailedError
  /\ state.originalImage = last.req.image
  /\ prompt = last.req.prompt
  /\ ~GenerateDisabled(state, prompt)

\* C6: when the read of a valid file fails, after the reader's callbacks the
\* state holds the error "Failed to read file." and the original image and
\* its type are as they were.
C6_ReadErrorSurfaced ==
  last.op = "readfailed"
    => /\ state.error = <<"Failed to read file.">>
       /\ state.originalImage = pre.state.originalImage
       /\ state.originalMimeType = pre.state.originalMimeType

Min(S) == CHOOSE i \in S : \A j \in S : i <= j

IsString(v) == v # Null /\ v # Undefined

\* C7: editImage returns the data URL of the first inline-image part, its
\* mime type image/png when the part gives none; with no inline-image part
\* it fails with the first non-empty text, or with the no-image error; with
\* no candidates, or when the SDK fails, it fails with the message of that
\* failure (the fallback message when the SDK's error has none).
C7_FirstImageOrError ==
  last.op = "editImage" =>
    LET reply  == last.reply
        ps     == reply.parts
        images == {i \in 1..Len(ps) : ps[i].inlineData.present}
        texts  == {i \in 1..Len(ps) : IsString(ps[i].text) /\ Len(ps[i].text) > 0}
    IN CASE reply.kind = "parts" /\ images # {} ->
              LET part == ps[Min(images)].inlineData
                  mime == IF IsString(part.mimeType) /\ Len(part.mimeType) > 0
                          THEN part.mimeType
                          ELSE <<"image/png">>
              IN last.out = [ok |-> TRUE,
                             value |-> <<"data:">> \o mime \o <<";base64", ",">> \o part.data]
         [] reply.kind = "parts" /\ images = {} /\ texts # {} ->
              last.out = [ok |-> FALSE,
                          value |-> <<"Model returned text instead of image: ">>
                                      \o ps[Min(texts)].text]
         [] reply.kind = "parts" /\ images = {} /\ texts = {} ->
              last.out = [ok |-> FALSE, value |-> <<"Model did not return a valid image.">>]
         [] reply.kind = "noparts" ->
              last.out = [ok |-> FALSE, value |-> <<"Model did not return a valid image.">>]
         [] reply.kind \in {"null", "nocandidates"} ->
              last.out = [ok |-> FALSE,
                          value |-> <<"No response candidates returned from Gemini.">>]
         [] reply.kind = "throw" ->
              last.out = [ok |-> FALSE,
                          value |-> IF IsString(reply.message) /\ Len(reply.message) > 0
                                    THEN reply.message
                                    ELSE <<"Failed to edit image using Gemini.">>]

\* a text, then an image without a mime type, then an image with one: the
\* first image is returned, as image/png
C7_Witness ==
  /\ last.op = "editImage"
  /\ Len(last.reply.parts) = 3
  /\ Truthy(last.reply.parts[1].text)
  /\ last.reply.parts[2].inlineData.present
  /\ last.reply.parts[2].inlineData.mimeType = Undefined
  /\ last.reply.parts[3].inlineData.present
  /\ last.reply.parts[3].inlineData.mimeType = <<"image/jpeg">>
  /\ last.out = [ok |-> TRUE,
                 value |-> <<"data:", "image/png", ";base64", ",">>
                             \o last.reply.parts[2].inlineData.data]

\* C8: reset leaves the all-empty initial state and an empty prompt, also
\* while a file read or an edit request is pending.
C8_ResetIsInitial ==
  last.op = "reset"
    => /\ state = [ originalImage    |-> Null,
                    originalMimeType |-> <<>>,
                    isGenerating     |-> FALSE,
                    generatedImage   |-> NoGenerated,
                    error            |-> Null ]
       /\ prompt = <<>>

\* reset while a read and a request are pending, from a state that held a
\* result being regenerated
C8_Witness ==
  /\ last.op = "reset"
  /\ readers # <<>>
  /\ requests # <<>>
  /\ pre.state.isGenerating
  /\ state.isGenerating = FALSE

\* C9: once the original image is set, no step but reset changes it or its
\* mime type.
C9_SourceImmutableUntilReset ==
  (Truthy(pre.state.originalImage) /\ last.op # "reset")
    => /\ state.originalImage = pre.state.originalImage
       /\ state.originalMimeType = pre.state.originalMimeType

\* C10: the completion of a request is applied to the state as it is then,
\* whatever happened since the request started: a success sets the result
\* from the request's prompt and clears the in-flight flag, a failure sets
\* the error and clears the flag, and the rest of the state is kept.
C10_CompletionAppliedUnconditionally ==
  /\ (Completed /\ last.out.ok)
       => /\ state.generatedImage.imageUrl = last.out.value
          /\ state.generatedImage.prompt = last.req.prompt
          /\ state.generatedImage.timestamp \in Instants
          /\ state.isGenerating = FALSE
          /\ state.originalImage = pre.state.originalImage
          /\ state.originalMimeType = pre.state.originalMimeType
          /\ state.error = pre.state.error
  /\ (Completed /\ ~last.out.ok)
       => /\ state.error = last.out.value
          /\ state.isGenerating = FALSE
          /\ state.originalImage = pre.state.originalImage
          /\ state.originalMimeType = pre.state.originalMimeType
          /\ state.generatedImage = pre.state.generatedImage

\* a request succeeds after a reset and the upload of another image: the
\* result was made from an image that is not the current one
C10_Witness ==
  /\ Completed /\ last.out.ok
  /\ Present(state.generatedImage)
  /\ Truthy(state.originalImage)
  /\ state.originalImage # last.req.image

\* a request succeeds after a reset: a result without an original image
ResultWithoutSource ==
  /\ Completed /\ last.out.ok
  /\ Present(state.generatedImage)
  /\ state.originalImage = Null

====
